---- MODULE Spec2Model ----
(***************************************************************************)
(* FireModel (src/Antigravity/fire_model.py): a wavefront fire-spread      *)
(* simulator.  ignite() seeds cells of the ignition-time field and         *)
(* run_simulation() drains a heap of (time, row, col) events, settling     *)
(* each cell once, relaxing its 8 neighbours and, for Forest cells under   *)
(* strong wind, throwing at most one random ember.                         *)
(*                                                                         *)
(* Number representation (the code computes in float64):                   *)
(*   times           integer hundredths of a time unit ("centi")           *)
(*   distances       integer thousandths of a metre ("milli")              *)
(*   wind_speed      integer tenths of m/s                                 *)
(*   wind_dir        integer degrees (the code stores radians)             *)
(*   base rates      tenths ; wind sensitivities hundredths                *)
(*   slope factor    tenths ; wind factor thousandths                      *)
(*   cos / sin       thousandths, tabulated on multiples of 30 degrees     *)
(* Every division of the code is carried out once, at the place the code   *)
(* divides, and floors to the unit above.                                  *)
(***************************************************************************)
EXTENDS Integers, Sequences, FiniteSets, TLC

VARIABLES
    rows, cols,        \* self.rows, self.cols
    elevation,         \* self.elevation : cell -> metres
    fuel,              \* self.fuel      : cell -> 0..3
    cell_size,         \* self.cell_size (metres)
    wind_speed,        \* self.wind_speed (tenths of m/s)
    wind_dir,          \* self.wind_dir (degrees)
    ignition_time,     \* self.ignition_time : cell -> time or inf
    pq,                \* run_simulation's heap, as the set of its tuples
    visited,           \* run_simulation's visited array
    max_time,          \* run_simulation's argument
    pc,                \* "init" | "loop" | "done" | "raised"
    last,              \* the operation that produced this state
    pops,              \* times of the events popped so far, in order
    start_field,       \* the ignition-time field when run_simulation began
    nIgnite,           \* ignite calls made
    nEmber,            \* ember draws that fired
    rng,               \* values drawn so far from the process-wide np.random
    prior,             \* what an earlier, identically built model returned
    frame              \* the masks the renderer computed for its current frame

vars == <<rows, cols, elevation, fuel, cell_size, wind_speed, wind_dir,
          ignition_time, pq, visited, max_time, pc, last, pops, start_field,
          nIgnite, nEmber, rng, prior, frame>>

terrain == <<rows, cols, elevation, fuel, cell_size, wind_speed, wind_dir>>

----------------------------------------------------------------------------
(* Bounds of the exploration *)

MaxIgnites == 2
MaxEmbers == 1

----------------------------------------------------------------------------
(* Program constants *)

inf == 1000000000

Urban == 0
Grass == 1
Forest == 2
Water == 3

base_rates(fuel_type) ==
    CASE fuel_type = 0 -> 1
      [] fuel_type = 1 -> 15
      [] fuel_type = 2 -> 5
      [] fuel_type = 3 -> 0
      [] OTHER -> 5

wind_sensitivity(fuel_type) ==
    CASE fuel_type = 0 -> 5
      [] fuel_type = 1 -> 25
      [] fuel_type = 2 -> 10
      [] fuel_type = 3 -> 0
      [] OTHER -> 10

\* neighbors without the four diagonal offsets
neighborsOrthogonal ==
    << <<-1, 0, 1000>>, <<1, 0, 1000>>, <<0, -1, 1000>>, <<0, 1, 1000>> >>

\* neighbors whose southward offset skips a row
neighborsLeap ==
    << <<-1, 0, 1000>>, <<2, 0, 1000>>, <<0, -1, 1000>>, <<0, 1, 1000>>,
       <<-1, -1, 1414>>, <<-1, 1, 1414>>, <<1, -1, 1414>>, <<1, 1, 1414>> >>

\* (dr, dc, dist_mult in thousandths)
neighbors ==
    << <<-1, 0, 1000>>, <<1, 0, 1000>>, <<0, -1, 1000>>, <<0, 1, 1000>>,
       <<-1, -1, 1414>>, <<-1, 1, 1414>>, <<1, -1, 1414>>, <<1, 1, 1414>> >>

----------------------------------------------------------------------------
(* Arithmetic helpers *)

Max(a, b) == IF a >= b THEN a ELSE b
Min(a, b) == IF a <= b THEN a ELSE b

\* Python's int() on a float: truncation toward zero (n / d, d > 0)
IntTrunc(n, d) == IF n >= 0 THEN n \div d ELSE -((-n) \div d)

\* np.cos on a multiple of 30 degrees, in thousandths
CosM(deg) ==
    LET d == deg % 360
    IN CASE d = 0 -> 1000
         [] d = 30 -> 866
         [] d = 60 -> 500
         [] d = 90 -> 0
         [] d = 120 -> -500
         [] d = 150 -> -866
         [] d = 180 -> -1000
         [] d = 210 -> -866
         [] d = 240 -> -500
         [] d = 270 -> 0
         [] d = 300 -> 500
         [] d = 330 -> 866

\* np.sin on a multiple of 30 degrees, in thousandths
SinM(deg) == CosM(deg + 270)

----------------------------------------------------------------------------
(* The grid *)

Cells == (0 .. rows - 1) \X (0 .. cols - 1)

InBounds(r, c) == 0 <= r /\ r < rows /\ 0 <= c /\ c < cols

----------------------------------------------------------------------------
(* Spread rate across the edge (r, c) -> (nr, nc), lines 93-185 *)

\* slope_factor with the upper clip of line 100 at 80.0: exp(0.0693 * degrees)
\* is 22.6 at 45 degrees and 11.5 at 35.3 degrees
slope_factorClip80(elev_diff, dist) ==
    CASE elev_diff = 0 -> 10
      [] elev_diff * 1000 >= dist -> 226
      [] elev_diff * 1000000 >= 578 * dist -> 115
      [] (-elev_diff) * 1000000 >= 656 * dist -> 1

\* np.clip(np.exp(k_slope * np.arctan2(elev_diff, dist)), 0.1, 8.0), in tenths.
\* exp(0.0693 * degrees) is at least 8 from 30.01 degrees up (tan >= 0.578)
\* and at most 0.1 from -33.23 degrees down (tan <= -0.656); between the two
\* the exponential is tabulated only at 0.  The rasters of this model are
\* flat or step by a whole cell_size, so no other angle arises.
slope_factor(elev_diff, dist) ==
    CASE elev_diff = 0 -> 10
      [] elev_diff * 1000000 >= 578 * dist -> 80
      [] (-elev_diff) * 1000000 >= 656 * dist -> 1

\* wind_factor with the row component of the wind vector negated
wind_factorUpwind(fuel_type, dr, dc, dist_mult) ==
    IF wind_speed > 0
    THEN LET wd_r == -CosM(wind_dir)
             wd_c == -SinM(wind_dir)
             dot == ((wd_r * dr + wd_c * dc) * 1000) \div dist_mult
         IN Max(100, 1000 + (wind_sensitivity(fuel_type) * wind_speed * dot) \div 1000)
    ELSE 1000

\* max(0.1, 1 + sensitivity * wind_speed * dot), in thousandths
wind_factor(fuel_type, dr, dc, dist_mult) ==
    IF wind_speed > 0
    THEN LET wd_r == CosM(wind_dir)
             wd_c == -SinM(wind_dir)
             dot == ((wd_r * dr + wd_c * dc) * 1000) \div dist_mult
         IN Max(100, 1000 + (wind_sensitivity(fuel_type) * wind_speed * dot) \div 1000)
    ELSE 1000

\* dist / (base_rate * slope_factor * wind_factor), in centi time units
travel_time(r, c, dr, dc, dist_mult) ==
    LET nr == r + dr
        nc == c + dc
        fuel_type == fuel[<<nr, nc>>]
        dist == cell_size * dist_mult
        elev_diff == elevation[<<nr, nc>>] - elevation[<<r, c>>]
        final_rate == base_rates(fuel_type) * slope_factor(elev_diff, dist)
                        * wind_factor(fuel_type, dr, dc, dist_mult)
    IN (dist * 10000) \div final_rate

----------------------------------------------------------------------------
(* The heap *)

\* tuple order of (time, r, c), as heapq compares its entries
TupleLess(e, f) ==
    \/ e[1] < f[1]
    \/ e[1] = f[1] /\ e[2] < f[2]
    \/ e[1] = f[1] /\ e[2] = f[2] /\ e[3] < f[3]

\* HeapMin with the order reversed: the largest entry
HeapMinReversed(q) == CHOOSE e \in q : \A f \in q : e = f \/ TupleLess(f, e)

\* HeapMin with the tie-break reversed: the earliest time, then the largest
\* (row, col)
HeapMinLastOfTies(q) ==
    CHOOSE e \in q : \A f \in q : e = f \/ e[1] < f[1] \/ (e[1] = f[1] /\ TupleLess(f, e))

\* the entry heapq.heappop returns
HeapMin(q) == CHOOSE e \in q : \A f \in q : e = f \/ TupleLess(e, f)

----------------------------------------------------------------------------
(* ignite, lines 51-54 *)

\* CanIgnite without the Water test of line 53
CanIgniteAnyFuel(r, c) == InBounds(r, c)

CanIgnite(r, c) == InBounds(r, c) /\ fuel[<<r, c>>] # 3

NoLast == [op |-> "new", t |-> 0, r |-> 0, c |-> 0, dist |-> 0, angle |-> 0, sp_r |-> 0,
           sp_c |-> 0, spot_time |-> 0]

\* Ignite with an off-grid target moved to the nearest cell instead of being
\* refused by line 52
IgniteClamped(r, c, start_time) ==
    /\ pc = "init"
    /\ nIgnite < MaxIgnites
    /\ LET x == <<Max(0, Min(rows - 1, r)), Max(0, Min(cols - 1, c))>>
       IN ignition_time' = IF fuel[x] # 3
                           THEN [ignition_time EXCEPT ![x] = start_time]
                           ELSE ignition_time
    /\ nIgnite' = nIgnite + 1
    /\ last' = [NoLast EXCEPT !.op = "ignite", !.t = start_time, !.r = r, !.c = c]
    /\ UNCHANGED <<terrain, pq, visited, max_time, pc, pops, start_field, nEmber, rng, prior, frame>>

Ignite(r, c, start_time) ==
    /\ pc = "init"
    /\ nIgnite < MaxIgnites
    /\ ignition_time' = IF CanIgnite(r, c)
                        THEN [ignition_time EXCEPT ![<<r, c>>] = start_time]
                        ELSE ignition_time
    /\ nIgnite' = nIgnite + 1
    /\ last' = [NoLast EXCEPT !.op = "ignite", !.t = start_time, !.r = r, !.c = c]
    /\ UNCHANGED <<terrain, pq, visited, max_time, pc, pops, start_field, nEmber, rng, prior, frame>>

----------------------------------------------------------------------------
(* run_simulation, lines 56-223 *)

\* lines 57-62: the heap is filled from the finite cells, visited is cleared
RunStart(mt) ==
    /\ pc = "init"
    /\ pq' = {<<ignition_time[x], x[1], x[2]>> : x \in {y \in Cells : ignition_time[y] < inf}}
    /\ visited' = [x \in Cells |-> FALSE]
    /\ max_time' = mt
    /\ start_field' = ignition_time
    /\ pc' = "loop"
    /\ last' = [NoLast EXCEPT !.op = "start", !.t = mt]
    /\ UNCHANGED <<terrain, ignition_time, pops, nIgnite, nEmber, rng, prior, frame>>

\* line 72, queue empty: the loop ends and the field is returned
RunExit ==
    /\ pc = "loop"
    /\ pq = {}
    /\ pc' = "done"
    /\ last' = [NoLast EXCEPT !.op = "exit"]
    /\ UNCHANGED <<terrain, ignition_time, pq, visited, max_time, pops, start_field,
                   nIgnite, nEmber, rng, prior, frame>>

\* PastHorizon with the horizon taken one Forest cell too late
PastHorizonLate(curr_time) == curr_time > max_time + 6000

\* PastHorizon with the comparison of line 75 made non-strict
PastHorizonEarly(curr_time) == curr_time >= max_time

\* line 75
PastHorizon(curr_time) == curr_time > max_time

\* lines 73-76: the popped event is past the horizon; break and return
PopBreak ==
    /\ pc = "loop"
    /\ pq # {}
    /\ LET e == HeapMin(pq)
       IN /\ PastHorizon(e[1])
          /\ pq' = pq \ {e}
          /\ pops' = Append(pops, e[1])
          /\ last' = [NoLast EXCEPT !.op = "break", !.t = e[1], !.r = e[2], !.c = e[3]]
    /\ pc' = "done"
    /\ UNCHANGED <<terrain, ignition_time, visited, max_time, start_field, nIgnite, nEmber,
                   rng, prior, frame>>

\* lines 78-79: a stale entry of a settled cell is dropped
PopStale ==
    /\ pc = "loop"
    /\ pq # {}
    /\ LET e == HeapMin(pq)
       IN /\ ~PastHorizon(e[1])
          /\ visited[<<e[2], e[3]>>]
          /\ pq' = pq \ {e}
          /\ pops' = Append(pops, e[1])
          /\ last' = [NoLast EXCEPT !.op = "stale", !.t = e[1], !.r = e[2], !.c = e[3]]
    /\ UNCHANGED <<terrain, ignition_time, visited, max_time, pc, start_field,
                   nIgnite, nEmber, rng, prior, frame>>

\* Spreadable with the lower bounds of line 87 off by one
SpreadableOffByOne(nr, nc, vis) ==
    /\ 0 < nr /\ nr < rows /\ 0 < nc /\ nc < cols
    /\ ~vis[<<nr, nc>>]
    /\ fuel[<<nr, nc>>] # 3

\* line 87 and 90: the neighbour is on the grid, unsettled and not Water
Spreadable(nr, nc, vis) ==
    /\ InBounds(nr, nc)
    /\ ~vis[<<nr, nc>>]
    /\ fuel[<<nr, nc>>] # 3

\* Lowers with the comparison of line 187 replaced by inequality
LowersOrRaises(new_time, old_time) == new_time # old_time

\* line 187
Lowers(new_time, old_time) == new_time < old_time

\* Relaxed with the popped time left out of the sum of line 185
RelaxedFromZero(curr_time, r, c, vis) ==
    [x \in Cells |->
        LET hits == {i \in 1 .. Len(neighbors) :
                        /\ x = <<r + neighbors[i][1], c + neighbors[i][2]>>
                        /\ Spreadable(x[1], x[2], vis)}
        IN IF hits = {} THEN ignition_time[x]
           ELSE LET n == neighbors[CHOOSE i \in hits : TRUE]
                    new_time == travel_time(r, c, n[1], n[2], n[3])
                IN IF Lowers(new_time, ignition_time[x]) THEN new_time
                   ELSE ignition_time[x]]

\* lines 84-189: the field after the neighbour loop of the cell (r, c) popped
\* at curr_time.  The 8 neighbours are distinct cells and each iteration
\* reads and writes its own neighbour only.
Relaxed(curr_time, r, c, vis) ==
    [x \in Cells |->
        LET hits == {i \in 1 .. Len(neighbors) :
                        /\ x = <<r + neighbors[i][1], c + neighbors[i][2]>>
                        /\ Spreadable(x[1], x[2], vis)}
        IN IF hits = {} THEN ignition_time[x]
           ELSE LET n == neighbors[CHOOSE i \in hits : TRUE]
                    new_time == curr_time + travel_time(r, c, n[1], n[2], n[3])
                IN IF Lowers(new_time, ignition_time[x]) THEN new_time
                   ELSE ignition_time[x]]

\* Pushed for first discoveries only: no heappush when a finite time is lowered
PushedOnlyFirst(old, new) ==
    {<<new[x], x[1], x[2]>> : x \in {y \in Cells : new[y] # old[y] /\ old[y] = inf}}

\* the heappush of each cell the step wrote (lines 189 and 222)
Pushed(old, new) == {<<new[x], x[1], x[2]>> : x \in {y \in Cells : new[y] # old[y]}}

\* ThrowsEmbers with the wind test of line 195 made non-strict
ThrowsEmbersAtFive(r, c) == fuel[<<r, c>>] = 2 /\ wind_speed >= 50

\* line 195
ThrowsEmbers(r, c) == fuel[<<r, c>>] = 2 /\ wind_speed > 50

\* SpotDistances with randint's upper bound taken as inclusive
SpotDistancesInclusive == {d + 1 : d \in 2 .. IntTrunc(wind_speed * 5, 100)}

\* line 199: np.random.randint(2, int(wind_speed * 0.5)) + 1 draws from here,
\* and raises ValueError when the set is empty
SpotDistances == {d + 1 : d \in 2 .. (IntTrunc(wind_speed * 5, 100) - 1)}

\* line 203: np.random.normal(0, 0.3), sampled in degrees
AngleNoise == {-30, 0, 30}

\* FlightTimes without the 10.0 of line 214
FlightTimesNoOffset == {0, 1999}

\* line 214: 10.0 + np.random.random() * 20.0, sampled
FlightTimes == {1000, 2999}

\* lines 210-211
SpotRow(r, spot_angle, spot_dist_px) == IntTrunc(r * 1000 + CosM(spot_angle) * spot_dist_px, 1000)
SpotCol(c, spot_angle, spot_dist_px) == IntTrunc(c * 1000 - SinM(spot_angle) * spot_dist_px, 1000)

\* SpotLands without the comparison of line 219
SpotLandsAnyTime(sp_r, sp_c, spot_time, field) ==
    /\ InBounds(sp_r, sp_c)
    /\ fuel[<<sp_r, sp_c>>] \in {1, 2}
    /\ spot_time # field[<<sp_r, sp_c>>]

\* SpotLands without the fuel test of line 218
SpotLandsAnyFuel(sp_r, sp_c, spot_time, field) ==
    /\ InBounds(sp_r, sp_c)
    /\ spot_time < field[<<sp_r, sp_c>>]

\* lines 217-219
SpotLands(sp_r, sp_c, spot_time, field) ==
    /\ InBounds(sp_r, sp_c)
    /\ fuel[<<sp_r, sp_c>>] \in {1, 2}
    /\ spot_time < field[<<sp_r, sp_c>>]

\* lines 73-189 for a popped, unsettled event inside the horizon
SettleHead(e) ==
    /\ pc = "loop"
    /\ ~PastHorizon(e[1])
    /\ ~visited[<<e[2], e[3]>>]
    /\ visited' = [visited EXCEPT ![<<e[2], e[3]>>] = TRUE]
    /\ pops' = Append(pops, e[1])

\* a settlement that throws no ember: line 195 fails, or it holds and the
\* value drawn at line 197 is not below 0.02
Settle ==
    /\ pc = "loop"
    /\ pq # {}
    /\ LET e == HeapMin(pq) IN
        /\ SettleHead(e)
        /\ ignition_time' = Relaxed(e[1], e[2], e[3], visited')
        /\ pq' = (pq \ {e}) \cup Pushed(ignition_time, ignition_time')
        /\ last' = [NoLast EXCEPT !.op = "settle", !.t = e[1], !.r = e[2], !.c = e[3]]
        /\ rng' = IF ThrowsEmbers(e[2], e[3]) THEN rng + 1 ELSE rng
        /\ UNCHANGED <<terrain, max_time, pc, start_field, nIgnite, nEmber, prior, frame>>

\* a settlement whose draw of line 197 fires: lines 199-222, four values
\* drawn in all (lines 197, 199, 203, 214)
SettleEmber(spot_dist_px, noise, flight_time) ==
    /\ pc = "loop"
    /\ pq # {}
    /\ nEmber < MaxEmbers
    /\ spot_dist_px \in SpotDistances
    /\ LET e == HeapMin(pq) IN
        /\ ThrowsEmbers(e[2], e[3])
        /\ SettleHead(e)
        /\ LET field == Relaxed(e[1], e[2], e[3], visited')
               spot_angle == wind_dir + noise
               sp_r == SpotRow(e[2], spot_angle, spot_dist_px)
               sp_c == SpotCol(e[3], spot_angle, spot_dist_px)
               spot_time == e[1] + flight_time
           IN /\ ignition_time' = IF SpotLands(sp_r, sp_c, spot_time, field)
                                  THEN [field EXCEPT ![<<sp_r, sp_c>>] = spot_time]
                                  ELSE field
              /\ last' = [op |-> "ember", t |-> e[1], r |-> e[2], c |-> e[3],
                          dist |-> spot_dist_px, angle |-> spot_angle, sp_r |-> sp_r,
                          sp_c |-> sp_c, spot_time |-> spot_time]
        /\ pq' = (pq \ {e}) \cup Pushed(ignition_time, ignition_time')
        /\ nEmber' = nEmber + 1
        /\ rng' = rng + 4
        /\ UNCHANGED <<terrain, max_time, pc, start_field, nIgnite, prior, frame>>

\* a settlement whose draw fires while randint has nothing to draw from:
\* ValueError leaves run_simulation after the neighbour loop, with the one
\* value of line 197 drawn
SettleRaise ==
    /\ pc = "loop"
    /\ pq # {}
    /\ nEmber < MaxEmbers
    /\ SpotDistances = {}
    /\ LET e == HeapMin(pq) IN
        /\ ThrowsEmbers(e[2], e[3])
        /\ SettleHead(e)
        /\ ignition_time' = Relaxed(e[1], e[2], e[3], visited')
        /\ pq' = (pq \ {e}) \cup Pushed(ignition_time, ignition_time')
        /\ last' = [NoLast EXCEPT !.op = "raise", !.t = e[1], !.r = e[2], !.c = e[3]]
        /\ pc' = "raised"
        /\ nEmber' = nEmber + 1
        /\ rng' = rng + 1
        /\ UNCHANGED <<terrain, max_time, start_field, nIgnite, prior, frame>>

----------------------------------------------------------------------------
(* Construction, lines 5-20, on the rasters explored *)

\* fuel rasters, by name
FuelMap(name, R, C) ==
    [x \in (0 .. R - 1) \X (0 .. C - 1) |->
        CASE name = "forest" -> Forest
          [] name = "grass" -> Grass
          [] name = "water" -> Water
          [] name = "barrier" -> IF x[1] = 1 THEN Water ELSE Forest
          [] name = "diag" -> IF x[1] = x[2] + 1 THEN Water ELSE Grass
          [] name = "mixed" -> CASE x[2] = 0 -> (IF x[1] % 2 = 0 THEN Urban ELSE Water)
                                    [] x[2] = 1 -> Grass
                                    [] OTHER -> Forest]

\* elevation rasters, by name: flat, or a ridge one cell_size high along row 1
ElevationMap(name, R, C, size) ==
    [x \in (0 .. R - 1) \X (0 .. C - 1) |->
        CASE name = "flat" -> 0
          [] name = "ridge" -> IF x[1] = 1 THEN size ELSE 0]

\* <<rows, cols, fuel raster, elevation raster, wind_speed, wind_dir>>
Scenarios ==
    { <<3, 3, "forest", "flat", 0, 0>>,
      <<3, 1, "forest", "flat", 100, 0>>,
      <<3, 2, "forest", "ridge", 50, 90>>,
      <<2, 3, "mixed", "flat", 70, 90>>,
      <<2, 2, "water", "flat", 0, 0>>,
      <<4, 2, "barrier", "flat", 70, 0>>,
      <<4, 2, "diag", "flat", 0, 0>>,
      <<2, 2, "forest", "flat", 55, 0>> }

\* arguments of ignite and run_simulation explored
StartTimes == {0, 5000}
MaxTimes == {0, 6000, 2016000}

\* the renderer has drawn no frame
NoFrame == [drawn |-> FALSE, current_time |-> 0, is_ignited |-> <<>>, is_burnt_out |-> <<>>,
            is_active |-> <<>>]

\* no earlier model of this construction has run in the process
NoPrior == [ran |-> FALSE, field |-> <<>>]

Init ==
    \E s \in Scenarios :
        /\ rows = s[1]
        /\ cols = s[2]
        /\ cell_size = 30
        /\ fuel = FuelMap(s[3], s[1], s[2])
        /\ elevation = ElevationMap(s[4], s[1], s[2], 30)
        /\ wind_speed = s[5]
        /\ wind_dir = s[6]
        /\ ignition_time = [x \in (0 .. s[1] - 1) \X (0 .. s[2] - 1) |-> inf]
        /\ visited = [x \in (0 .. s[1] - 1) \X (0 .. s[2] - 1) |-> FALSE]
        /\ pq = {}
        /\ max_time = 0
        /\ pc = "init"
        /\ last = NoLast
        /\ pops = <<>>
        /\ start_field = [x \in (0 .. s[1] - 1) \X (0 .. s[2] - 1) |-> inf]
        /\ nIgnite = 0
        /\ nEmber = 0
        /\ rng = 0
        /\ prior = NoPrior
        /\ frame = NoFrame

Next ==
    \/ \E r \in -1 .. rows, c \in -1 .. cols, start_time \in StartTimes : Ignite(r, c, start_time)
    \/ \E mt \in MaxTimes : RunStart(mt)
    \/ RunExit
    \/ PopBreak
    \/ PopStale
    \/ Settle
    \/ \E d \in SpotDistances, noise \in AngleNoise, flight_time \in FlightTimes :
          SettleEmber(d, noise, flight_time)
    \/ SettleRaise

Spec == Init /\ [][Next]_vars

\* the entries a priority queue ordered by time alone may return
MinTime(q) == {e \in q : \A f \in q : e[1] <= f[1]}

\* lines 73-76 under any order of equal-time events
TiePopBreak ==
    /\ pc = "loop"
    /\ \E e \in MinTime(pq) :
          /\ PastHorizon(e[1])
          /\ pq' = pq \ {e}
          /\ pops' = Append(pops, e[1])
          /\ last' = [NoLast EXCEPT !.op = "tie-break", !.t = e[1], !.r = e[2], !.c = e[3]]
    /\ pc' = "done"
    /\ UNCHANGED <<terrain, ignition_time, visited, max_time, start_field, nIgnite, nEmber,
                   rng, prior, frame>>

\* lines 78-79 under any order of equal-time events
TiePopStale ==
    /\ pc = "loop"
    /\ \E e \in MinTime(pq) :
          /\ ~PastHorizon(e[1])
          /\ visited[<<e[2], e[3]>>]
          /\ pq' = pq \ {e}
          /\ pops' = Append(pops, e[1])
          /\ last' = [NoLast EXCEPT !.op = "tie-stale", !.t = e[1], !.r = e[2], !.c = e[3]]
    /\ UNCHANGED <<terrain, ignition_time, visited, max_time, pc, start_field,
                   nIgnite, nEmber, rng, prior, frame>>

\* lines 73-197 under any order of equal-time events, no ember thrown
TieSettle ==
    /\ pc = "loop"
    /\ \E e \in MinTime(pq) :
          /\ SettleHead(e)
          /\ ignition_time' = Relaxed(e[1], e[2], e[3], visited')
          /\ pq' = (pq \ {e}) \cup Pushed(ignition_time, ignition_time')
          /\ last' = [NoLast EXCEPT !.op = "tie-settle", !.t = e[1], !.r = e[2], !.c = e[3]]
          /\ rng' = IF ThrowsEmbers(e[2], e[3]) THEN rng + 1 ELSE rng
    /\ UNCHANGED <<terrain, max_time, pc, start_field, nIgnite, nEmber, prior, frame>>

\* the runs in which no ember is thrown, with the program's heap order and
\* with every other order of equal-time events side by side
NextTies ==
    \/ \E r \in -1 .. rows, c \in -1 .. cols, start_time \in StartTimes : Ignite(r, c, start_time)
    \/ \E mt \in MaxTimes : RunStart(mt)
    \/ RunExit
    \/ PopBreak
    \/ PopStale
    \/ Settle
    \/ TiePopBreak
    \/ TiePopStale
    \/ TieSettle

SpecTies == Init /\ [][NextTies]_vars

\* one pass of the loop of line 72, or its exit
RunStep ==
    \/ RunExit
    \/ PopBreak
    \/ PopStale
    \/ Settle
    \/ \E d \in SpotDistances, noise \in AngleNoise, flight_time \in FlightTimes :
          SettleEmber(d, noise, flight_time)
    \/ SettleRaise

\* a run_simulation call that has begun keeps executing: the loop is
\* sequential code with no wait in it
SpecLive == Init /\ [][Next]_vars /\ WF_vars(RunStep)

\* A second FireModel built from the same rasters and parameters (lines 5-20),
\* given the same ignite calls (lines 51-54) and started with the same
\* max_time (lines 57-62).  __init__ takes no generator and keeps none:
\* lines 197-214 draw from the module-level np.random, whose state belongs to
\* the process and goes on from where the first run left it.
Rerun ==
    /\ pc = "done"
    /\ ~prior.ran
    /\ prior' = [ran |-> TRUE, field |-> ignition_time]
    /\ ignition_time' = start_field
    /\ pq' = {<<start_field[x], x[1], x[2]>> : x \in {y \in Cells : start_field[y] < inf}}
    /\ visited' = [x \in Cells |-> FALSE]
    /\ pops' = <<>>
    /\ pc' = "loop"
    /\ last' = [NoLast EXCEPT !.op = "start", !.t = max_time]
    /\ UNCHANGED <<terrain, max_time, start_field, nIgnite, nEmber, rng, frame>>

NextRepro ==
    \/ Next
    \/ Rerun

\* one process that builds and runs the same model twice
SpecRepro == Init /\ [][NextRepro]_vars

----------------------------------------------------------------------------
(* create_animation.update, src/Antigravity/visualizer.py lines 88-94 *)

\* line 90: 5 * 60 minutes, in centi
burn_duration == 30000

\* line 92, for one cell
is_ignited(ignition_times, current_time) == ignition_times <= current_time

\* is_burnt_out with the comparison of line 93 made strict
is_burnt_outStrict(ignition_times, current_time) ==
    ignition_times < current_time - burn_duration

\* line 93, for one cell
is_burnt_out(ignition_times, current_time) ==
    ignition_times <= current_time - burn_duration

\* line 94, for one cell
is_active(ignition_times, current_time) ==
    is_ignited(ignition_times, current_time) /\ ~is_burnt_out(ignition_times, current_time)

\* lines 72-73: the latest finite ignition time, 1.0 if that is 0
max_time_data ==
    LET finite == {ignition_time[x] : x \in {y \in Cells : ignition_time[y] # inf}}
        latest == CHOOSE t \in finite : \A u \in finite : u <= t
    IN IF latest = 0 THEN 100 ELSE latest

\* lines 79-86: the frame times, sampled; all lie in 0 .. max_time
FrameTimes == {0, 6000, 30000, 36000}

\* lines 88-94: one frame of the field the run returned.  np.max at line 72
\* needs a finite ignition time.
Update(current_time) ==
    /\ pc = "done"
    /\ \E x \in Cells : ignition_time[x] # inf
    /\ current_time <= max_time_data
    /\ frame' = [drawn |-> TRUE,
                 current_time |-> current_time,
                 is_ignited |-> [x \in Cells |-> is_ignited(ignition_time[x], current_time)],
                 is_burnt_out |-> [x \in Cells |-> is_burnt_out(ignition_time[x], current_time)],
                 is_active |-> [x \in Cells |-> is_active(ignition_time[x], current_time)]]
    /\ UNCHANGED <<terrain, ignition_time, pq, visited, max_time, pc, last, pops, start_field,
                   nIgnite, nEmber, rng, prior>>

NextRender ==
    \/ Next
    \/ \E current_time \in FrameTimes : Update(current_time)

\* a model is built, seeded and run, and the field it returns is rendered
SpecRender == Init /\ [][NextRender]_vars

----------------------------------------------------------------------------
(* Vocabulary of the properties *)

\* x and y are distinct 8-connected cells
Adjacent8(x, y) ==
    /\ x # y
    /\ x[1] - y[1] \in {-1, 0, 1}
    /\ x[2] - y[2] \in {-1, 0, 1}

\* the geometric length factor of the step x -> y, in thousandths
StepMult(x, y) == IF x[1] # y[1] /\ x[2] # y[2] THEN 1414 ELSE 1000

\* the directed edge travel time of the step x -> y
EdgeTime(x, y) == travel_time(x[1], x[2], y[1] - x[1], y[2] - x[2], StepMult(x, y))

\* the cells seeded when the run began
Seeds == {x \in Cells : start_field[x] < inf}

\* one more step allowed on every path: the best of staying and of arriving
\* from a neighbour over its directed edge
ArrivalStep(field) ==
    [y \in Cells |->
        LET via == {field[x] + EdgeTime(x, y) :
                       x \in {z \in Cells : /\ Adjacent8(z, y)
                                            /\ fuel[y] # Water
                                            /\ field[z] < inf}}
        IN IF via = {} THEN field[y]
           ELSE Min(field[y], CHOOSE t \in via : \A u \in via : t <= u)]

\* longer paths are allowed until no path improves any cell
RECURSIVE ArrivalFrom(_)
ArrivalFrom(field) ==
    LET next == ArrivalStep(field)
    IN IF next = field THEN field ELSE ArrivalFrom(next)

\* the minimum over all seeds and all 8-connected paths of non-Water cells of
\* the seed's start time plus the travel times of the path's directed edges
EarliestArrival == ArrivalFrom(start_field)

\* cells joined to a set of cells by an 8-connected path of non-Water cells
RECURSIVE ReachFrom(_)
ReachFrom(S) ==
    LET T == S \cup {y \in Cells : fuel[y] # Water /\ \E x \in S : Adjacent8(x, y)}
    IN IF T = S THEN S ELSE ReachFrom(T)

Reach == ReachFrom(Seeds)

Returned == pc = "done"
RanToEmptyQueue == pc = "done" /\ last.op = "exit"
SettledNow(x) == last.op \in {"settle", "ember", "raise"} /\ x = <<last.r, last.c>>

\* Unseen = 0, Pending = 1, Settled = 2
CellState(field, vis, x) == IF vis[x] THEN 2 ELSE IF field[x] < inf THEN 1 ELSE 0

----------------------------------------------------------------------------
(* C1 *)

\* C1: in a run in which no ember is thrown and which ends on an empty queue
\* (not cut off by max_time), the returned time of every cell is the earliest
\* arrival time over all seeds and all 8-connected directed paths of non-Water
\* cells, and inf when there is no such path.
C1_ReturnsEarliestArrival ==
    (RanToEmptyQueue /\ nEmber = 0) => ignition_time = EarliestArrival

\* a finished run in which a later seed was overtaken by the front of an
\* earlier one and an unseeded cell was reached
C1_Witness ==
    /\ RanToEmptyQueue
    /\ nEmber = 0
    /\ \E x \in Seeds : ignition_time[x] < start_field[x]
    /\ \E y \in Cells \ Seeds : ignition_time[y] < inf
    /\ ignition_time = EarliestArrival

----------------------------------------------------------------------------
(* C2 *)

\* C2: during run_simulation a settled cell stays settled, keeps its ignition
\* time, is not settled a second time and gets no new queue entry, and no
\* cell's state moves backwards in Unseen -> Pending -> Settled.
C2_SettledIsFinal ==
    [][pc = "loop" =>
        \A x \in Cells :
            /\ visited[x] => /\ visited'[x]
                             /\ ignition_time'[x] = ignition_time[x]
                             /\ ~(last'.op \in {"settle", "ember", "raise"}
                                    /\ x = <<last'.r, last'.c>>)
                             /\ \A e \in pq' \ pq : <<e[2], e[3]>> # x
            /\ CellState(ignition_time', visited', x) >= CellState(ignition_time, visited, x)]_vars

\* an ember was thrown at a Grass or Forest cell that was already settled
C2_Witness ==
    /\ last.op = "ember"
    /\ InBounds(last.sp_r, last.sp_c)
    /\ fuel[<<last.sp_r, last.sp_c>>] \in {Grass, Forest}
    /\ visited[<<last.sp_r, last.sp_c>>]
    /\ <<last.sp_r, last.sp_c>> # <<last.r, last.c>>

----------------------------------------------------------------------------
(* C3 *)

\* C3: the times of the events popped from the queue are non-decreasing.
C3_PopsNonDecreasing ==
    \A i \in 1 .. Len(pops) - 1 : pops[i] <= pops[i + 1]

\* a stale entry was popped in a run in which an ember had been thrown
C3_Witness ==
    /\ last.op = "stale"
    /\ nEmber > 0
    /\ Len(pops) >= 3
    /\ pops[1] < pops[Len(pops)]

----------------------------------------------------------------------------
(* C4 *)

\* C4: during a run no cell's ignition time increases, and every event pushed
\* on the queue carries a time strictly below the time its cell had before.
C4_WritesOnlyLower ==
    [][pc = "loop" =>
        /\ \A x \in Cells : ignition_time'[x] <= ignition_time[x]
        /\ \A e \in pq' \ pq : /\ e[1] < ignition_time[<<e[2], e[3]>>]
                               /\ e[1] = ignition_time'[<<e[2], e[3]>>]]_vars

\* an ember lowered the finite time of a pending cell
C4_Witness ==
    /\ last.op = "ember"
    /\ InBounds(last.sp_r, last.sp_c)
    /\ ignition_time[<<last.sp_r, last.sp_c>>] = last.spot_time
    /\ <<last.spot_time, last.sp_r, last.sp_c>> \in pq
    /\ \E e \in pq : e[2] = last.sp_r /\ e[3] = last.sp_c /\ e[1] > last.spot_time

----------------------------------------------------------------------------
(* C5 *)

\* C5: a Water cell always has ignition time inf, has no entry in the queue,
\* is not settled and is not the cell a settlement spreads from.
C5_WaterUntouched ==
    \A x \in Cells :
        fuel[x] = Water =>
            /\ ignition_time[x] = inf
            /\ ~visited[x]
            /\ \A e \in pq : <<e[2], e[3]>> # x
            /\ ~SettledNow(x)

\* an ember was thrown at a Water cell after a Water cell had been ignited on
C5_Witness ==
    /\ last.op = "ember"
    /\ InBounds(last.sp_r, last.sp_c)
    /\ fuel[<<last.sp_r, last.sp_c>>] = Water
    /\ \E x \in Cells : visited[x] /\ \E y \in Cells : Adjacent8(x, y) /\ fuel[y] = Water

----------------------------------------------------------------------------
(* C6 *)

\* C6 as claimed: in every returned field a cell that every 8-connected path
\* from every seed reaches only through a Water cell has ignition time inf.
C6_BarrierStopsEveryRun ==
    Returned => \A x \in Cells \ Reach : ignition_time[x] = inf

\* C6, amended: in every run in which no ember is thrown, a cell that every
\* 8-connected path from every seed reaches only through a Water cell has
\* ignition time inf in the returned field.
C6_BarrierStopsTheFront ==
    (Returned /\ nEmber = 0) => \A x \in Cells \ Reach : ignition_time[x] = inf

\* a run under ember-throwing wind returned with a Forest cell behind the
\* Water row still at inf
C6_Witness ==
    /\ Returned
    /\ nEmber = 0
    /\ wind_speed > 50
    /\ \E x \in Seeds : fuel[x] = Forest /\ visited[x]
    /\ \E y \in Cells \ Reach : fuel[y] = Forest /\ ignition_time[y] = inf

----------------------------------------------------------------------------
(* C7 *)

\* C7: in a run that ends on an empty queue, every cell joined to a seed by
\* an 8-connected path of non-Water cells has a finite ignition time; a
\* diagonal step between two diagonally adjacent Water cells counts.
C7_ConnectedCellsBurn ==
    RanToEmptyQueue => \A x \in Reach : ignition_time[x] < inf

\* the front passed between the Water cells (1,0) and (2,1) to cells that no
\* other path reaches
C7_Witness ==
    /\ RanToEmptyQueue
    /\ rows = 4 /\ cols = 2
    /\ fuel[<<1, 0>>] = Water /\ fuel[<<2, 1>>] = Water
    /\ Seeds = {<<0, 0>>}
    /\ ignition_time[<<2, 0>>] < inf
    /\ ignition_time[<<3, 1>>] < inf

----------------------------------------------------------------------------
(* C8 *)

\* C8 as claimed: ignite on an in-bounds non-Water cell sets the cell's time
\* to the minimum of its current time and start_time.
C8_IgniteTakesMinimum ==
    [][(last'.op = "ignite" /\ InBounds(last'.r, last'.c)
          /\ fuel[<<last'.r, last'.c>>] # Water) =>
        ignition_time'[<<last'.r, last'.c>>]
            = Min(ignition_time[<<last'.r, last'.c>>], last'.t)]_vars

----------------------------------------------------------------------------
(* C9 *)

\* C9: ignite on a position off the grid or on a Water cell raises nothing
\* and changes neither the ignition-time field nor any other model state.
C9_BadIgniteIsNoOp ==
    [][(last'.op = "ignite" /\ ~(InBounds(last'.r, last'.c)
                                  /\ fuel[<<last'.r, last'.c>>] # Water)) =>
        /\ ignition_time' = ignition_time
        /\ pc' = "init"
        /\ UNCHANGED <<terrain, pq, visited, max_time, pops, start_field>>]_vars

\* a Water cell was ignited on after another cell had been seeded
C9_Witness ==
    /\ last.op = "ignite"
    /\ InBounds(last.r, last.c)
    /\ fuel[<<last.r, last.c>>] = Water
    /\ \E x \in Cells : ignition_time[x] < inf

----------------------------------------------------------------------------
(* C10 *)

AllSeedsAtZero == Seeds # {} /\ \A x \in Seeds : start_field[x] = 0

\* C10 as claimed: run_simulation(0) on seeds ignited at time 0 settles only
\* the seeds and returns inf for every other cell.
C10_HorizonZeroLeavesNever ==
    (Returned /\ max_time = 0 /\ AllSeedsAtZero) =>
        /\ \A x \in Cells : visited[x] => x \in Seeds
        /\ \A x \in Cells \ Seeds : ignition_time[x] = inf

\* C10, amended: run_simulation(0) on seeds ignited at time 0 settles only the
\* seeds; every other cell is unsettled and returns either inf or a candidate
\* time later than 0, and a candidate is held only by a non-Water neighbour
\* of a seed or, when an ember was thrown, by its target.
C10_HorizonZeroLeavesCandidates ==
    (Returned /\ max_time = 0 /\ AllSeedsAtZero) =>
        /\ \A x \in Cells : visited[x] => x \in Seeds
        /\ \A x \in Cells \ Seeds :
              \/ ignition_time[x] = inf
              \/ /\ ignition_time[x] > 0
                 /\ fuel[x] # Water
                 /\ \/ \E y \in Seeds : Adjacent8(y, x)
                    \/ nEmber > 0

\* a run with max_time 0 returned a field with a candidate on a neighbour of
\* the seed and inf further away
C10_Witness ==
    /\ Returned
    /\ max_time = 0
    /\ AllSeedsAtZero
    /\ \A x \in Seeds : visited[x]
    /\ \E x \in Cells \ Seeds : ignition_time[x] < inf /\ ignition_time[x] > 0
    /\ \E x \in Cells \ Seeds : fuel[x] # Water /\ ignition_time[x] = inf

----------------------------------------------------------------------------
\* C11: two runs on models built with identical rasters, parameters and seeds
\* return identical ignition-time fields, the random source being the model's
\* own and not the process-wide generator.
C11_SameInputsSameField ==
    (prior.ran /\ pc = "done") => ignition_time = prior.field

----------------------------------------------------------------------------
\* C12: with valid construction parameters no sequence of ignite calls
\* followed by a run reaches an error state; in particular the distance of an
\* ember thrown under a wind speed between 5 and 6 is drawn without error.
C12_RunNeverRaises == pc # "raised"

----------------------------------------------------------------------------
AllWater == \A x \in Cells : fuel[x] = Water

\* C13: a run on a grid whose cells are all Water, whatever ignite calls were
\* made, and a run with no ignition seed, settle no cell, do not raise, and
\* return a field in which every cell is 'never'.
C13_DegenerateRunsReturnNever ==
    (pc # "init" /\ (AllWater \/ Seeds = {})) =>
        /\ pc # "raised"
        /\ pq = {}
        /\ pops = <<>>
        /\ \A x \in Cells : ignition_time[x] = inf /\ ~visited[x]

\* an all-Water grid was given ignite calls and its run has returned
C13_Witness ==
    /\ AllWater
    /\ nIgnite > 0
    /\ pc = "done"
    /\ last.op = "exit"

----------------------------------------------------------------------------
\* wind_speed 10 from the North on a flat grid of Forest
NorthWindOnFlatForest ==
    /\ wind_speed = 100
    /\ wind_dir = 0
    /\ \A x \in Cells : fuel[x] = Forest /\ elevation[x] = 0

----------------------------------------------------------------------------
\* n / d rounded to the nearest integer, for n >= 0 and d > 0
RoundDiv(n, d) == (2 * n + d) \div (2 * d)

\* no wind, flat elevation, one burnable fuel everywhere
CalmFlatUniform ==
    /\ wind_speed = 0
    /\ \A x, y \in Cells : fuel[x] = fuel[y] /\ elevation[x] = elevation[y]
    /\ \A x \in Cells : fuel[x] # Water

\* C15: with zero wind, flat elevation and uniform fuel, each orthogonal
\* neighbour of a single seed ignited at time 0 settles at
\* cell_size / base_rate and each diagonal neighbour at
\* cell_size * sqrt(2) / base_rate, to two decimals (60.00 and 84.85 for
\* Forest and cell_size 30).
C15_IsotropicBaseline ==
    \A s \in Cells :
        (RanToEmptyQueue /\ CalmFlatUniform /\ Seeds = {s} /\ start_field[s] = 0) =>
            \A x \in Cells :
                Adjacent8(s, x) =>
                    /\ visited[x]
                    /\ ignition_time[x] =
                          IF x[1] = s[1] \/ x[2] = s[2]
                          THEN RoundDiv(cell_size * 1000, base_rates(fuel[x]))
                          ELSE RoundDiv(cell_size * 141421, 100 * base_rates(fuel[x]))

----------------------------------------------------------------------------
\* the run returned at line 76, on a popped event past the horizon
StoppedAtHorizon == pc = "done" /\ last.op = "break"

\* C17 as stated: when the run stops on an event past max_time and no ember
\* was thrown, the candidate time of every unsettled cell with a finite value
\* is at most the cell's earliest arrival time over the directed paths from
\* the seeds.
C17_CandidateIsLowerBound ==
    (StoppedAtHorizon /\ nEmber = 0) =>
        LET arrival == EarliestArrival
        IN \A x \in Cells :
              (~visited[x] /\ ignition_time[x] < inf) => ignition_time[x] <= arrival[x]

\* C17, amended: under the same conditions the candidate time is at least the
\* cell's earliest arrival time.
C17_CandidateIsUpperBound ==
    (StoppedAtHorizon /\ nEmber = 0) =>
        LET arrival == EarliestArrival
        IN \A x \in Cells :
              (~visited[x] /\ ignition_time[x] < inf) => ignition_time[x] >= arrival[x]

\* a run cut at the horizon left a cell with a candidate above its earliest
\* arrival time
C17_Witness ==
    /\ StoppedAtHorizon
    /\ nEmber = 0
    /\ \E x \in Cells :
          ~visited[x] /\ ignition_time[x] < inf /\ ignition_time[x] > EarliestArrival[x]

----------------------------------------------------------------------------
\* C18: no cell is settled from an event later than max_time; an event at
\* exactly max_time never ends the run, so it is settled and relaxed; the
\* first popped event later than max_time ends the run, whatever is left in
\* the queue; and when no ember was thrown every cell whose earliest arrival
\* time is at most max_time is returned settled with exactly that time.
C18_HorizonCut ==
    pc # "init" =>
        /\ \A x \in Cells : visited[x] => ignition_time[x] <= max_time
        /\ last.op \in {"settle", "ember", "raise"} => last.t <= max_time
        /\ last.op = "break" =>
              /\ last.t > max_time
              /\ pc = "done"
              /\ \A i \in 1 .. Len(pops) - 1 : pops[i] <= max_time
        /\ (Returned /\ nEmber = 0) =>
              LET arrival == EarliestArrival
              IN \A x \in Cells :
                    arrival[x] <= max_time => visited[x] /\ ignition_time[x] = arrival[x]

\* a cell the front reached at exactly max_time was settled and relaxed a
\* neighbour, and the next event ended the run with entries left in the queue
C18_Witness ==
    /\ StoppedAtHorizon
    /\ nEmber = 0
    /\ pq # {}
    /\ \E x, y \in Cells :
          /\ visited[x]
          /\ start_field[x] = inf
          /\ ignition_time[x] = max_time
          /\ Adjacent8(x, y)
          /\ fuel[y] # Water
          /\ ~visited[y]
          /\ ignition_time[y] = max_time + EdgeTime(x, y)

----------------------------------------------------------------------------
----------------------------------------------------------------------------
\* C20: random values are drawn, and an event that is not the relaxation of
\* an 8-neighbour is enqueued, only by the step that settles a cell, and only
\* if that cell is Forest and wind_speed is strictly above 5; such a step
\* enqueues at most one such event, the ember's; with wind_speed <= 5 or no
\* Forest cell a run draws nothing and enqueues no ember event.
C20_EmbersOnlyFromForestInWind ==
    [][ LET s == <<last'.r, last'.c>>
            settles == /\ last'.op \in {"settle", "ember", "raise"}
                       /\ ~visited[s]
                       /\ visited'[s]
            far == {e \in pq' \ pq : ~(settles /\ Adjacent8(s, <<e[2], e[3]>>))}
        IN /\ rng' # rng => settles /\ fuel[s] = Forest /\ wind_speed > 50
           /\ pc = "loop" =>
                 /\ far # {} =>
                       /\ settles /\ fuel[s] = Forest /\ wind_speed > 50
                       /\ rng' # rng
                       /\ last'.op = "ember"
                       /\ far = {<<last'.spot_time, last'.sp_r, last'.sp_c>>}
                 /\ Cardinality(far) <= 1
                 /\ (wind_speed <= 50 \/ \A x \in Cells : fuel[x] # Forest) =>
                       rng' = rng /\ far = {}
      ]_vars

\* the settlement of a Forest cell under strong wind has just drawn its
\* values and enqueued the ember's event
C20_Witness ==
    /\ pc = "loop"
    /\ last.op = "ember"
    /\ fuel[<<last.r, last.c>>] = Forest
    /\ wind_speed > 50
    /\ rng >= 4
    /\ <<last.spot_time, last.sp_r, last.sp_c>> \in pq
    /\ ~Adjacent8(<<last.r, last.c>>, <<last.sp_r, last.sp_c>>)

----------------------------------------------------------------------------
\* C21: an ember's event is enqueued, and the field written, only when the
\* target is on the grid, its fuel is Grass or Forest and the landing time is
\* strictly below the target's time; a target off the grid is dropped and the
\* run goes on; the time of a Water cell never changes and the time of an
\* Urban cell changes only by the relaxation of a neighbour.
C21_EmberLandsOnlyOnFuel ==
    [][ last'.op = "ember" =>
          LET s == <<last'.r, last'.c>>
              tgt == <<last'.sp_r, last'.sp_c>>
              landed == <<last'.spot_time, tgt[1], tgt[2]>> \in pq' \ pq
          IN /\ landed =>
                  /\ InBounds(tgt[1], tgt[2])
                  /\ fuel[tgt] \in {Grass, Forest}
                  /\ last'.spot_time < ignition_time[tgt]
                  /\ ignition_time'[tgt] = last'.spot_time
             /\ ~InBounds(tgt[1], tgt[2]) => ~landed /\ pc' = "loop"
             /\ \A x \in Cells :
                   /\ fuel[x] = Water => ignition_time'[x] = ignition_time[x]
                   /\ (fuel[x] = Urban /\ ignition_time'[x] # ignition_time[x]) =>
                         /\ Adjacent8(s, x)
                         /\ ignition_time'[x] = last'.t + EdgeTime(s, x)
      ]_vars

\* an ember aimed at an unsettled Urban cell with a later time was dropped
C21_Witness ==
    /\ last.op = "ember"
    /\ InBounds(last.sp_r, last.sp_c)
    /\ fuel[<<last.sp_r, last.sp_c>>] = Urban
    /\ ~visited[<<last.sp_r, last.sp_c>>]
    /\ last.spot_time < ignition_time[<<last.sp_r, last.sp_c>>]

----------------------------------------------------------------------------
\* C22: the ember's target is the settled cell moved by the offset
\* (cos(angle) * distance, -sin(angle) * distance), each component rounded to
\* the nearest integer.
C22_TargetRoundsOffset ==
    last.op = "ember" =>
        /\ last.sp_r = last.r + RoundDiv(CosM(last.angle) * last.dist, 1000)
        /\ last.sp_c = last.c - RoundDiv(SinM(last.angle) * last.dist, 1000)

----------------------------------------------------------------------------
\* C23: the landing time of every ember lies between the pop time of the
\* Forest cell that threw it plus 10 and that time plus 30, the pop time being
\* the time at which that cell was settled.
C23_FlightBetweenTenAndThirty ==
    last.op = "ember" =>
        LET s == <<last.r, last.c>>
        IN /\ visited[s]
           /\ fuel[s] = Forest
           /\ ignition_time[s] = last.t
           /\ last.spot_time >= last.t + 1000
           /\ last.spot_time <= last.t + 3000

\* an ember of the longest sampled flight has landed
C23_Witness ==
    /\ last.op = "ember"
    /\ last.spot_time = last.t + 2999
    /\ InBounds(last.sp_r, last.sp_c)
    /\ ignition_time[<<last.sp_r, last.sp_c>>] = last.spot_time

----------------------------------------------------------------------------
\* C24: across every step onto a cell that is not Water the slope factor lies
\* in [0.1, 8.0], the wind factor is at least 0.1 and the travel time is
\* strictly positive and finite; no event is ever enqueued for a Water cell,
\* and every event a settlement enqueues is strictly later than the time
\* popped for the settled cell.
C24_TravelTimesPositive ==
    /\ [](\A x, y \in Cells :
            (Adjacent8(x, y) /\ fuel[y] # Water) =>
                /\ slope_factor(elevation[y] - elevation[x], cell_size * StepMult(x, y)) \in 1 .. 80
                /\ wind_factor(fuel[y], y[1] - x[1], y[2] - x[2], StepMult(x, y)) >= 100
                /\ EdgeTime(x, y) > 0
                /\ EdgeTime(x, y) < inf)
    /\ [][ pc = "loop" =>
              \A e \in pq' \ pq : e[1] > last'.t /\ e[1] < inf /\ fuel[<<e[2], e[3]>>] # Water
        ]_vars

\* a settlement on the ridge has relaxed a neighbour across a step whose
\* slope factor is clipped at 8.0
C24_Witness ==
    /\ last.op = "settle"
    /\ \E y \in Cells :
          /\ Adjacent8(<<last.r, last.c>>, y)
          /\ elevation[y] > elevation[<<last.r, last.c>>]
          /\ fuel[y] # Water
          /\ <<last.t + EdgeTime(<<last.r, last.c>>, y), y[1], y[2]>> \in pq

----------------------------------------------------------------------------
\* C25: while the loop runs, every unsettled cell with a finite time has a
\* queue entry carrying exactly that time, no queue entry carries a time
\* below its cell's time, and a popped entry of a settled cell is dropped
\* with the field and the settled set unchanged.
C25_QueueCoversCandidates ==
    /\ [](pc = "loop" =>
            /\ \A x \in Cells :
                  (~visited[x] /\ ignition_time[x] < inf) =>
                      <<ignition_time[x], x[1], x[2]>> \in pq
            /\ \A e \in pq : e[1] >= ignition_time[<<e[2], e[3]>>])
    /\ [][ last'.op = "stale" =>
              /\ visited[<<last'.r, last'.c>>]
              /\ pq' = pq \ {<<last'.t, last'.r, last'.c>>}
              /\ ignition_time' = ignition_time
              /\ visited' = visited
              /\ pc' = pc
        ]_vars

\* a stale entry was just dropped while an unsettled cell has two entries in
\* the queue, the lower one carrying its time
C25_Witness ==
    /\ pc = "loop"
    /\ last.op = "stale"
    /\ \E e1, e2 \in pq :
          /\ e1[2] = e2[2] /\ e1[3] = e2[3]
          /\ e1[1] < e2[1]
          /\ ~visited[<<e1[2], e1[3]>>]
          /\ ignition_time[<<e1[2], e1[3]>>] = e1[1]

----------------------------------------------------------------------------
\* the events enqueued since the run began: those still queued and those popped
Enqueued == Cardinality(pq) + Len(pops)

\* C26: every run terminates by emptying the queue or by popping an event
\* later than max_time; no cell is settled twice; and the number of events
\* ever enqueued is at most the number of seeds plus 9 per settled cell.
C26_RunTerminates ==
    /\ (pc = "loop") ~> (pc = "done")
    /\ [][ last'.op \in {"settle", "ember", "raise"} => ~visited[<<last'.r, last'.c>>] ]_vars
    /\ [](pc # "init" =>
            Enqueued <= Cardinality(Seeds) + 9 * Cardinality({x \in Cells : visited[x]}))

----------------------------------------------------------------------------
\* the field a run without embers returns, from its inputs alone: cells whose
\* earliest arrival is within max_time hold it, every other cell holds the
\* best of its start time and of the steps onto it from those cells
ExpectedField ==
    LET arrival == EarliestArrival
        within == {y \in Cells : arrival[y] <= max_time}
    IN [x \in Cells |->
          IF x \in within THEN arrival[x]
          ELSE LET via == {arrival[y] + EdgeTime(y, x) :
                              y \in {z \in within : Adjacent8(z, x) /\ fuel[x] # Water}}
               IN IF via = {} THEN start_field[x]
                  ELSE Min(start_field[x], CHOOSE t \in via : \A u \in via : t <= u)]

\* C27: the program pops its events in ascending time and, among equal
\* times, in ascending (row, col); and when no ember is thrown the field
\* returned is the same under every order of popping equal-time events.
C27_TieOrderDoesNotMatter ==
    /\ [][ last'.op \in {"break", "stale", "settle"} =>
              LET e == <<last'.t, last'.r, last'.c>>
              IN /\ e \in pq
                 /\ \A f \in pq :
                       \/ f = e
                       \/ f[1] > e[1]
                       \/ f[1] = e[1] /\ f[2] > e[2]
                       \/ f[1] = e[1] /\ f[2] = e[2] /\ f[3] > e[3]
        ]_vars
    /\ [](\A i \in 1 .. Len(pops) - 1 : pops[i] <= pops[i + 1])
    /\ []((Returned /\ nEmber = 0) => ignition_time = ExpectedField)

\* a cell was settled ahead of an equal-time event the heap would have
\* popped first
C27_Witness ==
    /\ last.op = "tie-settle"
    /\ \E f \in pq :
          /\ f[1] = last.t
          /\ f[2] < last.r \/ (f[2] = last.r /\ f[3] < last.c)
          /\ ~visited[<<f[2], f[3]>>]

----------------------------------------------------------------------------
\* what every step leaves alone: the rasters, the wind and the cell size; and
\* what ignite leaves alone: every cell's time but its target's, the settled
\* set and the queue
FrameOfInputs ==
    /\ terrain' = terrain
    /\ last'.op = "ignite" =>
          /\ \A x \in Cells :
                x # <<last'.r, last'.c>> => ignition_time'[x] = ignition_time[x]
          /\ pq' = pq
          /\ visited' = visited

----------------------------------------------------------------------------
\* C29: the event from which a cell is settled carries the cell's value in
\* the ignition-time field at that moment, and that value stays from then on:
\* the time of a settled cell is the time at which it was settled.
C29_SettledAtFieldValue ==
    [][ /\ last'.op \in {"settle", "ember", "raise"} =>
              /\ ignition_time[<<last'.r, last'.c>>] = last'.t
              /\ ignition_time'[<<last'.r, last'.c>>] = last'.t
        /\ pc = "loop" =>
              \A x \in Cells : visited[x] => ignition_time'[x] = ignition_time[x]
      ]_vars

\* a cell was settled at its time while an older, later entry of it is
\* still queued
C29_Witness ==
    /\ last.op = "settle"
    /\ visited[<<last.r, last.c>>]
    /\ ignition_time[<<last.r, last.c>>] = last.t
    /\ \E e \in pq : e[2] = last.r /\ e[3] = last.c /\ e[1] > last.t

----------------------------------------------------------------------------
\* C30: in a rendered frame a cell is shown as active fire exactly when its
\* ignition time is at most the frame time and the frame time is below the
\* ignition time plus the burn duration of 300 minutes; active cells are
\* ignited cells; a cell that never ignites is neither.
C30_ActiveWindow ==
    frame.drawn =>
        \A x \in Cells :
            /\ frame.is_active[x] <=>
                  /\ ignition_time[x] <= frame.current_time
                  /\ frame.current_time < ignition_time[x] + 30000
            /\ frame.is_active[x] => frame.is_ignited[x]
            /\ ignition_time[x] = inf => ~frame.is_ignited[x] /\ ~frame.is_active[x]

\* a frame shows a cell that has just burnt out, a cell still active and a
\* cell that never ignites
C30_Witness ==
    /\ frame.drawn
    /\ \E x, y, z \in Cells :
          /\ ignition_time[x] + 30000 = frame.current_time
          /\ frame.is_ignited[x] /\ ~frame.is_active[x]
          /\ frame.is_active[y]
          /\ ignition_time[z] = inf

====
